---- MODULE Spec2Model ----
(***************************************************************************)
(* Model of src/prep.py: the bronze / silver / gold EEG feature pipeline   *)
(* (load_raw_eeg_data, create_silver_features, create_gold_layer, main)    *)
(* and of compute_dfa, the detrended-fluctuation scaling exponent.         *)
(*                                                                         *)
(* Floating-point quantities that the claims compare are kept as exact     *)
(* rationals [num, den]; int(x) of a non-negative float is modelled as the *)
(* floor of the exact product, which is what the code computes for the     *)
(* dyadic configuration values drawn here (1/2, 7/8 and 5/2 are exactly   *)
(* representable, and so are their small products).                        *)
(***************************************************************************)
EXTENDS Integers, Sequences, FiniteSets, TLC

\* ------------------------------------------------------------------ bounds
MaxSubjects == 2      \* subject files in the dataset directory
MaxSamples  == 11     \* rows of one subject file
MaxChannels == 2      \* columns of the subject files
MaxPower    == 2      \* beta-band power levels of a channel's signal
MaxDfaLen   == 63     \* segment length handed to compute_dfa

\* ------------------------------------------------------- program constants
EEG_CHANNELS ==
    << "Fp1", "Fp2", "F3", "F4", "F7", "F8", "T3", "T4", "C3", "C4",
       "T5", "T6", "P3", "P4", "O1", "O2", "Fz", "Cz", "Pz" >>
FileLimit         == 5     \* sorted(...)[:5]
MinChannelSamples == 10    \* if len(channel_data) < 10: continue
MinDfaSamples     == 16    \* if N < 16: return 0.0
DfaScaleCount     == 8     \* np.logspace(..., 8)

\* The configuration globals are module-level constants of the source
\* (250 Hz, 2.0 s, 0.5); the run is modelled for each of these settings.
\* Each is <<SAMPLING_RATE, WINDOW_SIZE, WINDOW_OVERLAP>>, the last two as
\* exact rationals.
Rat(n, d) == [num |-> n, den |-> d]
Configs ==
    { <<4, Rat(1, 2), Rat(0, 1)>>,     \* window_samples 2,  step 2
      <<4, Rat(1, 2), Rat(7, 8)>>,     \* window_samples 2,  step 0
      <<2, Rat(5, 2), Rat(1, 2)>>,     \* window_samples 5,  step 2
      <<4, Rat(5, 2), Rat(1, 2)>>,     \* window_samples 10, step 5
      <<4, Rat(5, 2), Rat(7, 8)>> }    \* window_samples 10, step 1

VARIABLES
    SAMPLING_RATE,       \* Hz
    WINDOW_SIZE,         \* seconds, a rational
    WINDOW_OVERLAP,      \* fraction in [0,1), a rational
    dataset,             \* DATASET_DIR: per subject file (sorted by name) its row count
    n_cols,              \* columns of the subject files, known once one is read
    power,               \* per channel, the beta_power that compute_bandpower
                         \* gave its windows: a property of the recording, drawn
                         \* when the gold queries first read the column
    pc,                  \* position of main
    failure,             \* the exception main caught, "none" if none
    exit_code,           \* process exit status
    csv_files,           \* subjects loaded by the bronze layer
    window_samples,
    step_samples,
    subject_i,           \* index of the subject the silver loop is at
    start_idx,           \* range() cursor of the window loop
    window_count,
    all_features,        \* the FeatureRows, in generation order
    windows,             \* every window the loop body ran for, in order
    gold_workload_stats, \* channel mart
    gold_subject_stats,  \* subject mart
    dfa                  \* compute_dfa's frame

pvars == << SAMPLING_RATE, WINDOW_SIZE, WINDOW_OVERLAP, dataset, n_cols, power,
            pc, failure, exit_code, csv_files, window_samples, step_samples,
            subject_i, start_idx, window_count, all_features, windows,
            gold_workload_stats, gold_subject_stats >>
vars == << pvars, dfa >>

\* ----------------------------------------------------------------- helpers
Min(a, b) == IF a < b THEN a ELSE b
Max(a, b) == IF a > b THEN a ELSE b

\* int(r * k) for a rational r >= 0 and an integer k >= 0: truncation.
IntOfProduct(r, k) == (r.num * k) \div r.den

\* int(k * (1 - r)) for a rational r in [0, 1].
IntOfComplementProduct(k, r) == (k * (r.den - r.num)) \div r.den

\* seq[:n]
Take(seq, n) == SubSeq(seq, 1, Min(n, Len(seq)))

\* df['time_sec'] = df['sample_idx'] / SAMPLING_RATE
TimeSec(sample_idx) == Rat(sample_idx, SAMPLING_RATE)

\* The channel names a frame with n columns gets: EEG_CHANNELS[:df.shape[1]]
ChannelsOf(n) == Take(EEG_CHANNELS, n)

DfaIdle == [pc |-> "idle"]

\* ------------------------------------------------------------------- Init
Init ==
    /\ \E c \in Configs :
          /\ SAMPLING_RATE = c[1]
          /\ WINDOW_SIZE = c[2]
          /\ WINDOW_OVERLAP = c[3]
    /\ \E k \in 0..MaxSubjects : dataset \in [1..k -> 1..MaxSamples]
    /\ n_cols = 0
    /\ power = << >>
    /\ pc = "start"
    /\ failure = "none"
    /\ exit_code = 0
    /\ csv_files = << >>
    /\ window_samples = 0
    /\ step_samples = 0
    /\ subject_i = 0
    /\ start_idx = 0
    /\ window_count = 0
    /\ all_features = << >>
    /\ windows = << >>
    /\ gold_workload_stats = << >>
    /\ gold_subject_stats = << >>
    /\ dfa = DfaIdle

\* ------------------------------------------------------------------- main
\* A handler that swallows the exception and carries on to the end
MainExceptSwallowed(e) ==
    /\ pc' = "complete"
    /\ failure' = e
    /\ exit_code' = 0

\* except Exception as e: ...; sys.exit(1)
MainExcept(e) ==
    /\ pc' = "failed"
    /\ failure' = e
    /\ exit_code' = 1

\* load_raw_eeg_data
LoadRawEegData ==
    /\ pc = "start"
    /\ LET files == Take([i \in 1..Len(dataset) |-> i], FileLimit)
       IN  IF Len(files) = 0
           THEN /\ MainExcept("FileNotFoundError")
                /\ UNCHANGED << csv_files, n_cols >>
           ELSE /\ csv_files' = files
                /\ n_cols' \in 1..MaxChannels
                /\ pc' = "bronze"
                /\ UNCHANGED << failure, exit_code >>
    /\ UNCHANGED << SAMPLING_RATE, WINDOW_SIZE, WINDOW_OVERLAP, dataset,
                    power, window_samples, step_samples, subject_i, start_idx,
                    window_count, all_features, windows, gold_workload_stats,
                    gold_subject_stats, dfa >>

\* ------------------------------------------------- create_silver_features
\* window_samples = int(WINDOW_SIZE * SAMPLING_RATE)
WindowSamples == IntOfProduct(WINDOW_SIZE, SAMPLING_RATE)

\* step_samples = int(window_samples * (1 - WINDOW_OVERLAP))
StepSamples(ws) == IntOfComplementProduct(ws, WINDOW_OVERLAP)

\* range(0, n_samples - window_samples, step_samples): the "+ 1" forgotten
RangeStopExclusive(n_samples, ws) == n_samples - ws

\* range(0, n_samples, step_samples): the window length forgotten
RangeStopWholeRecording(n_samples, ws) == n_samples

\* The stop of range(0, n_samples - window_samples + 1, step_samples)
RangeStop(n_samples, ws) == n_samples - ws + 1

\* Whether a range with a positive step still yields cur
RangeHasNext(cur, stop) == cur < stop

\* The sample_idx values of subject_data.iloc[start:end], n rows in the frame
IlocSlice(n, start, end) ==
    [k \in 1..Max(0, Min(end, n) - Min(start, n)) |-> start + k - 1]

\* window_slice['time_sec'].iloc[0]
WindowStart(slice) == TimeSec(slice[1])

\* window_slice['time_sec'].iloc[0] read for the end as well
WindowEndFromFirst(slice) == TimeSec(slice[1])

\* window_slice['time_sec'].iloc[-1]
WindowEnd(slice) == TimeSec(slice[Len(slice)])

\* if len(channel_data) > 10: continue, the comparison turned round
EnoughSamplesInverted(len) == ~(len > MinChannelSamples)

\* if len(channel_data) < 10: continue
EnoughSamples(len) == ~(len < MinChannelSamples)

\* The columns of the bronze frame that carry channel data
Columns == {ChannelsOf(n_cols)[i] : i \in 1..n_cols}

\* The rows the channel loop appends for one window
WindowRows(subject, slice, idx) ==
    LET present == SelectSeq(EEG_CHANNELS, LAMBDA ch : ch \in Columns)
        kept    == SelectSeq(present, LAMBDA ch : EnoughSamples(Len(slice)))
    IN  [i \in 1..Len(kept) |->
            [ subject      |-> subject,
              channel      |-> kept[i],
              window_idx   |-> idx,
              window_start |-> WindowStart(slice),
              window_end   |-> WindowEnd(slice),
              slice_len    |-> Len(slice) ]]

silverUnchanged ==
    UNCHANGED << SAMPLING_RATE, WINDOW_SIZE, WINDOW_OVERLAP, dataset, n_cols,
                 csv_files, gold_workload_stats, gold_subject_stats, dfa >>

\* Lines 196-202: the set-up before the subject loop
CreateSilverFeatures ==
    /\ pc = "bronze"
    /\ window_samples' = WindowSamples
    /\ step_samples' = StepSamples(WindowSamples)
    /\ all_features' = << >>
    /\ subject_i' = 1
    /\ pc' = "subject"
    /\ UNCHANGED << failure, exit_code, start_idx, window_count, windows, power >>
    /\ silverUnchanged

\* Lines 204-212: the head of the subject loop and the range() call
SubjectBegin ==
    /\ pc = "subject"
    /\ subject_i <= Len(csv_files)
    /\ window_count' = 0
    /\ IF step_samples = 0
       THEN /\ MainExcept("ValueError")
            /\ UNCHANGED start_idx
       ELSE /\ start_idx' = 0
            /\ pc' = "window"
            /\ UNCHANGED << failure, exit_code >>
    /\ UNCHANGED << window_samples, step_samples, subject_i, all_features, windows,
                    power >>
    /\ silverUnchanged

\* Lines 212-237: one iteration of the window loop, channel loop included
WindowStep ==
    /\ pc = "window"
    /\ LET subject   == csv_files[subject_i]
           n_samples == dataset[subject]
           end_idx   == start_idx + window_samples
           slice     == IlocSlice(n_samples, start_idx, end_idx)
       IN  /\ RangeHasNext(start_idx, RangeStop(n_samples, window_samples))
           /\ IF Len(slice) = 0
              THEN /\ MainExcept("IndexError")
                   /\ UNCHANGED << start_idx, window_count, all_features, windows,
                                   power >>
              ELSE /\ all_features' =
                          all_features \o WindowRows(subject, slice, window_count)
                   /\ UNCHANGED power
                   /\ windows' = Append(windows,
                          [ subject    |-> subject,
                            window_idx |-> window_count,
                            start_idx  |-> start_idx,
                            end_idx    |-> end_idx,
                            slice_len  |-> Len(slice) ])
                   /\ window_count' = window_count + 1
                   /\ start_idx' = start_idx + step_samples
                   /\ UNCHANGED << pc, failure, exit_code >>
    /\ UNCHANGED << window_samples, step_samples, subject_i >>
    /\ silverUnchanged

\* The window range is exhausted: on to the next subject
SubjectEnd ==
    /\ pc = "window"
    /\ ~RangeHasNext(start_idx,
                     RangeStop(dataset[csv_files[subject_i]], window_samples))
    /\ subject_i' = subject_i + 1
    /\ pc' = "subject"
    /\ UNCHANGED << failure, exit_code, window_samples, step_samples, start_idx,
                    window_count, all_features, windows, power >>
    /\ silverUnchanged

\* con.register rejects a frame without columns, which is what
\* pd.DataFrame([]) is ("Need a DataFrame with at least one column").
RegisterFails(rows) == Len(rows) = 0

\* Lines 241-252: the frame is built and registered
SilverFinish ==
    /\ pc = "subject"
    /\ subject_i > Len(csv_files)
    /\ IF RegisterFails(all_features)
       THEN MainExcept("InvalidInputException")
       ELSE /\ pc' = "silver"
            /\ UNCHANGED << failure, exit_code >>
    /\ UNCHANGED << window_samples, step_samples, subject_i, start_idx,
                    window_count, all_features, windows, power >>
    /\ silverUnchanged

\* ------------------------------------------------------ create_gold_layer
\* features['beta_power'] of a row, for the recording's band powers pw
BetaPower(row, pw) == pw[row.channel]

RECURSIVE SumBeta(_, _)
\* The sum AVG(beta_power) divides by the row count
SumBeta(rows, pw) ==
    IF rows = << >> THEN 0 ELSE BetaPower(Head(rows), pw) + SumBeta(Tail(rows), pw)

\* AVG(beta_power) over the rows of a group, an exact rational
AvgBeta(rows, pw) == Rat(SumBeta(rows, pw), Len(rows))

\* COUNT(*) over the rows of a group
CountStar(rows) == Len(rows)

\* COUNT(window_idx), without DISTINCT
CountWindowIdx(rows) == Len(rows)

\* COUNT(DISTINCT window_idx) over the rows of a group
CountDistinctWindowIdx(rows) ==
    Cardinality({rows[i].window_idx : i \in 1..Len(rows)})

\* a >= b on rationals with positive denominators
RatGeq(a, b) == a.num * b.den >= b.num * a.den

\* ORDER BY avg_beta (ascending)
ByAvgBetaAsc(a, b) == RatGeq(b.avg_beta, a.avg_beta)

\* ORDER BY avg_beta DESC: may row a stand before row b
ByAvgBetaDesc(a, b) == RatGeq(a.avg_beta, b.avg_beta)

\* ORDER BY subject: may row a stand before row b
BySubject(a, b) == a.subject <= b.subject

\* The sequences that hold each row of a set once
Orderings(rowset) ==
    LET n == Cardinality(rowset)
    IN  { seq \in [1..n -> rowset] : \A i, j \in 1..n : i # j => seq[i] # seq[j] }

\* The results ORDER BY avg_beta DESC may return (rows that compare equal
\* come in either order)
OrderByAvgBetaDesc(rowset) ==
    { seq \in Orderings(rowset) :
        \A i, j \in 1..Len(seq) : i < j => ByAvgBetaDesc(seq[i], seq[j]) }

\* The results ORDER BY subject may return
OrderBySubject(rowset) ==
    { seq \in Orderings(rowset) :
        \A i, j \in 1..Len(seq) : i < j => BySubject(seq[i], seq[j]) }

\* GROUP BY channel with the aggregates of gold_workload_stats
GroupByChannel(rows, pw) ==
    { LET grp == SelectSeq(rows, LAMBDA r : r.channel = c)
      IN  [ channel   |-> c,
            avg_beta  |-> AvgBeta(grp, pw),
            n_windows |-> CountStar(grp) ]
      : c \in {rows[i].channel : i \in 1..Len(rows)} }

\* GROUP BY subject with the aggregates of gold_subject_stats
GroupBySubject(rows, pw) ==
    { LET grp == SelectSeq(rows, LAMBDA r : r.subject = s)
      IN  [ subject   |-> s,
            avg_beta  |-> AvgBeta(grp, pw),
            n_windows |-> CountDistinctWindowIdx(grp) ]
      : s \in {rows[i].subject : i \in 1..Len(rows)} }

CreateGoldLayer ==
    /\ pc = "silver"
    /\ power' \in [Columns -> 1..MaxPower]
    /\ gold_workload_stats' \in
          OrderByAvgBetaDesc(GroupByChannel(all_features, power'))
    /\ gold_subject_stats' \in OrderBySubject(GroupBySubject(all_features, power'))
    /\ pc' = "gold"
    /\ UNCHANGED << SAMPLING_RATE, WINDOW_SIZE, WINDOW_OVERLAP, dataset, n_cols,
                    failure, exit_code, csv_files, window_samples,
                    step_samples, subject_i, start_idx, window_count,
                    all_features, windows, dfa >>

\* Lines 439-443: the metadata file is written and "PIPELINE COMPLETE" printed
MainComplete ==
    /\ pc = "gold"
    /\ pc' = "complete"
    /\ UNCHANGED << SAMPLING_RATE, WINDOW_SIZE, WINDOW_OVERLAP, dataset, n_cols,
                    power, failure, exit_code, csv_files, window_samples,
                    step_samples, subject_i, start_idx, window_count,
                    all_features, windows, gold_workload_stats,
                    gold_subject_stats, dfa >>

\* ------------------------------------------------------------- compute_dfa
RECURSIVE Pow(_, _)
Pow(b, e) == IF e = 0 THEN 1 ELSE b * Pow(b, e - 1)

\* The largest s with s^7 <= x
Root7Floor(x) == CHOOSE s \in 0..22 : Pow(s, 7) <= x /\ Pow(s + 1, 7) > x

\* np.logspace(lo, np.log10(m), 8).astype(int), element i of 0..7, for lo = 0
\* or 1: int(10 ** (lo + i * (log10(m) - lo) / 7)), the floor of the seventh
\* root of 10^(lo*(7-i)) * m^i.  The last element is 10 ** log10(m), which
\* floating point rounds to m or to just below m (int() then gives m - 1)
\* unless log10(m) is exact; below says which of the two the platform gives.
LogspaceInt(lo, m, i, below) ==
    IF i = DfaScaleCount - 1
    THEN IF below /\ Pow(10, lo) # m THEN m - 1 ELSE m
    ELSE Root7Floor(Pow(Pow(10, lo), 7 - i) * Pow(m, i))

\* scales = np.logspace(0, np.log10(N//4), 8).astype(int)
DfaScalesFromZero(N, below) ==
    [k \in 1..DfaScaleCount |-> LogspaceInt(0, N \div 4, k - 1, below)]

\* scales = np.logspace(1, np.log10(N//4), 8).astype(int)
DfaScales(N, below) ==
    [k \in 1..DfaScaleCount |-> LogspaceInt(1, N \div 4, k - 1, below)]

\* segments = N // scale (a numpy integer division: 0 for a zero divisor)
Segments(N, scale) == IF scale = 0 THEN 0 ELSE N \div scale

\* len(y[i*scale:(i+1)*scale])
SegmentLen(N, scale, i) == Max(0, Min((i + 1) * scale, N) - Min(i * scale, N))

\* The segments of one scale that get a trend fit: those of length >= 2
FittedSegments(N, scale) ==
    {i \in 0..(Segments(N, scale) - 1) : ~(SegmentLen(N, scale, i) < 2)}

\* if N < 16: return 0.0
TooShort(N) == N < MinDfaSamples

\* except: raise
DfaExceptRaise(frame) == [frame EXCEPT !.pc = "propagated", !.raised = TRUE]

\* except: return 0.0
DfaExcept(frame) ==
    [frame EXCEPT !.pc = "returned", !.result = "zero", !.raised = TRUE]

DfaFrame(N, scales) ==
    [ pc |-> "scales", N |-> N, scales |-> scales, i |-> 1, flucts |-> << >>,
      fit_scales |-> << >>, result |-> "none", raised |-> FALSE ]

dfaUnchanged == UNCHANGED pvars

\* Lines 124-134: the call, the length test, the profile and the scales
DfaCall ==
    /\ dfa.pc = "idle"
    /\ \E N \in 0..MaxDfaLen, below \in BOOLEAN :
          dfa' = IF TooShort(N)
                 THEN [DfaFrame(N, << >>) EXCEPT !.pc = "returned", !.result = "zero"]
                 ELSE DfaFrame(N, DfaScales(N, below))
    /\ dfaUnchanged

\* Lines 136-152: one iteration of the scale loop, segment loop included.
\* np.polyfit raises on a segment it cannot fit (non-finite samples).
DfaScale ==
    /\ dfa.pc = "scales"
    /\ dfa.i <= Len(dfa.scales)
    /\ LET scale  == dfa.scales[dfa.i]
           fitted == FittedSegments(dfa.N, scale)
       IN  \E raises \in BOOLEAN :
              dfa' = IF Segments(dfa.N, scale) < 1
                     THEN [dfa EXCEPT !.i = @ + 1]
                     ELSE IF raises /\ fitted # {}
                     THEN DfaExcept(dfa)
                     ELSE IF fitted # {}
                     THEN [dfa EXCEPT !.i = @ + 1,
                                      !.flucts = Append(@, [scale |-> scale])]
                     ELSE [dfa EXCEPT !.i = @ + 1]
    /\ dfaUnchanged

\* Lines 154-162: the final log-log fit.  np.polyfit raises on a degenerate
\* fit (a fluctuation of 0 has log10 -inf).
DfaFit ==
    /\ dfa.pc = "scales"
    /\ dfa.i > Len(dfa.scales)
    /\ \E raises \in BOOLEAN :
          dfa' = IF Len(dfa.flucts) < 2
                 THEN [dfa EXCEPT !.pc = "returned", !.result = "zero"]
                 ELSE IF raises
                 THEN DfaExcept([dfa EXCEPT
                                   !.fit_scales = Take(dfa.scales, Len(dfa.flucts))])
                 ELSE [dfa EXCEPT !.pc = "returned", !.result = "alpha",
                                  !.fit_scales = Take(dfa.scales, Len(dfa.flucts))]
    /\ dfaUnchanged

InitDfa ==
    /\ \E c \in Configs :
          /\ SAMPLING_RATE = c[1]
          /\ WINDOW_SIZE = c[2]
          /\ WINDOW_OVERLAP = c[3]
    /\ dataset = << >>
    /\ n_cols = 0
    /\ power = << >>
    /\ pc = "idle"
    /\ failure = "none"
    /\ exit_code = 0
    /\ csv_files = << >>
    /\ window_samples = 0
    /\ step_samples = 0
    /\ subject_i = 0
    /\ start_idx = 0
    /\ window_count = 0
    /\ all_features = << >>
    /\ windows = << >>
    /\ gold_workload_stats = << >>
    /\ gold_subject_stats = << >>
    /\ dfa = DfaIdle

NextDfa ==
    \/ DfaCall
    \/ DfaScale
    \/ DfaFit

SpecDfa == InitDfa /\ [][NextDfa]_vars

Next ==
    \/ LoadRawEegData
    \/ CreateSilverFeatures
    \/ SubjectBegin
    \/ WindowStep
    \/ SubjectEnd
    \/ SilverFinish
    \/ CreateGoldLayer
    \/ MainComplete

Spec == Init /\ [][Next]_vars
\* ================================================================ claims
\* Definitions shared by the formulas below.

\* The windows the loop body ran for, for the subject at position i
WindowsOf(i) == SelectSeq(windows, LAMBDA w : w.subject = csv_files[i])

\* The FeatureRows of the subject at position i
RowsOf(i) == SelectSeq(all_features, LAMBDA r : r.subject = csv_files[i])

\* The silver layer has computed window_samples and step_samples
SilverStarted == pc \in {"subject", "window", "silver", "gold", "complete", "failed"}
                 /\ csv_files # << >>

\* The subject at position i has left the window loop
SubjectDone(i) == SilverStarted /\ i < subject_i

\* The subject's recording is shorter than one window
ShortSubject(i) == dataset[csv_files[i]] < window_samples

\* W = floor((N - window_samples) / step_samples) + 1 if N >= window_samples, else 0
ExpectedCount(N, ws, step) == IF N >= ws THEN (N - ws) \div step + 1 ELSE 0

\* The pairs (k*step, k*step + window_samples), k = 0 .. W-1
ExpectedWindows(N, ws, step) ==
    [k \in 1..ExpectedCount(N, ws, step) |-> << (k - 1) * step, (k - 1) * step + ws >>]

Bounds(ws) == [k \in 1..Len(ws) |-> << ws[k].start_idx, ws[k].end_idx >>]

IsPrefix(a, b) == Len(a) <= Len(b) /\ a = SubSeq(b, 1, Len(a))

\* C1: for window_samples >= 1 and step_samples >= 1 the windows of a subject
\* are exactly (k*step, k*step + window_samples), k = 0..W-1, in order, with
\* W = floor((N - window_samples)/step) + 1 if N >= window_samples, else 0; every
\* window has end - start = window_samples, none ends past N, and the final
\* partial window is dropped.
C1_WindowSequence ==
    SilverStarted /\ window_samples >= 1 /\ step_samples >= 1 =>
        \A i \in 1..Len(csv_files) :
            LET N   == dataset[csv_files[i]]
                got == Bounds(WindowsOf(i))
                exp == ExpectedWindows(N, window_samples, step_samples)
            IN  /\ SubjectDone(i) => got = exp
                /\ IsPrefix(got, exp)
                /\ \A k \in 1..Len(got) :
                      /\ got[k][2] - got[k][1] = window_samples
                      /\ got[k][2] <= N
                      /\ WindowsOf(i)[k].slice_len = window_samples

\* A finished subject with several windows whose recording leaves a partial
\* window at the end
C1_Witness ==
    /\ SilverStarted
    /\ \E i \in 1..Len(csv_files) :
          /\ SubjectDone(i)
          /\ Len(WindowsOf(i)) >= 3
          /\ (dataset[csv_files[i]] - window_samples) % step_samples # 0

\* C2: for every overlap in [0,1), also when window_samples * (1 - overlap) is
\* below 1, step_samples is clamped to at least 1, so the window loop advances
\* by a positive step and does not abort on a zero step.
C2_StepClamped ==
    SilverStarted => step_samples >= 1 /\ failure # "ValueError"

\* C3 as stated: a subject with N < window_samples yields no window and no
\* FeatureRow, and the run raises no error because of it, also when that
\* subject is the only one.
C3_ShortSubjectNoError ==
    SilverStarted /\ step_samples >= 1 =>
        \A i \in 1..Len(csv_files) :
            ShortSubject(i) =>
                /\ WindowsOf(i) = << >>
                /\ RowsOf(i) = << >>
                /\ SubjectDone(i) => failure = "none"

\* C3 as amended: a subject with N < window_samples yields no window and no
\* FeatureRow, and the run raises no error because of it provided some subject
\* yields a FeatureRow; when no subject yields one (the short subject alone,
\* for one) the empty feature table is rejected and the run fails.
C3_ShortSubjectAmended ==
    SilverStarted =>
        /\ \A i \in 1..Len(csv_files) :
              ShortSubject(i) => WindowsOf(i) = << >> /\ RowsOf(i) = << >>
        /\ (\E i \in 1..Len(csv_files) : ShortSubject(i)) =>
              /\ all_features # << >> => pc # "failed" /\ failure = "none"
              /\ all_features = << >> => pc \notin {"silver", "gold", "complete"}

\* A completed run one of whose subjects was too short for a window
C3_Witness ==
    /\ pc = "complete"
    /\ \E i \in 1..Len(csv_files) : ShortSubject(i) /\ SubjectDone(i)

\* C4 as stated: with an empty recording collection, or with a subject for
\* which no window can be produced, main ends in its failure exit, never in
\* "PIPELINE COMPLETE".
C4_SubjectWithoutWindowsFails ==
    pc = "complete" =>
        /\ csv_files # << >>
        /\ \A i \in 1..Len(csv_files) : WindowsOf(i) # << >>

\* C4 as amended: with an empty recording collection, or when no window and
\* so no FeatureRow is produced for any subject, main ends in its failure exit
\* (the exception reported, exit status 1), never in "PIPELINE COMPLETE".
C4_NoWindowsAtAllFails ==
    /\ pc \in {"silver", "gold", "complete"} =>
          csv_files # << >> /\ windows # << >> /\ all_features # << >>
    /\ pc \notin {"start", "idle"} /\ Len(dataset) = 0 =>
          pc = "failed" /\ failure = "FileNotFoundError"
    /\ pc = "failed" => exit_code = 1 /\ failure # "none"
    /\ pc # "failed" => exit_code = 0 /\ failure = "none"

\* A run with subjects none of which had a window, ended in the failure exit
C4_Witness ==
    /\ pc = "failed"
    /\ exit_code = 1
    /\ csv_files # << >>
    /\ step_samples >= 1
    /\ windows = << >>

GoldDone == pc \in {"gold", "complete"}

\* The number of FeatureRows that satisfy Test
RowCount(Test(_)) == Cardinality({k \in 1..Len(all_features) : Test(all_features[k])})

\* C5 as stated: n_windows of each channel row and of each subject row is the
\* count of FeatureRows with that key.
C5_NWindowsIsRowCount ==
    GoldDone =>
        /\ \A k \in 1..Len(gold_workload_stats) :
              LET g == gold_workload_stats[k]
              IN  g.n_windows = RowCount(LAMBDA r : r.channel = g.channel)
        /\ \A k \in 1..Len(gold_subject_stats) :
              LET g == gold_subject_stats[k]
              IN  g.n_windows = RowCount(LAMBDA r : r.subject = g.subject)

\* C5 as amended: n_windows of a channel row is the count of FeatureRows of
\* that channel; n_windows of a subject row is the number of distinct
\* window_idx values among the FeatureRows of that subject.
C5_NWindowsAmended ==
    GoldDone =>
        /\ \A k \in 1..Len(gold_workload_stats) :
              LET g == gold_workload_stats[k]
              IN  g.n_windows = RowCount(LAMBDA r : r.channel = g.channel)
        /\ \A k \in 1..Len(gold_subject_stats) :
              LET g == gold_subject_stats[k]
              IN  g.n_windows =
                    Cardinality({ w \in 0..Len(windows) :
                        \E j \in 1..Len(all_features) :
                            /\ all_features[j].subject = g.subject
                            /\ all_features[j].window_idx = w })

\* Marts over a subject with several windows and several channels
C5_Witness ==
    /\ GoldDone
    /\ n_cols >= 2
    /\ \E k \in 1..Len(gold_subject_stats) : gold_subject_stats[k].n_windows >= 2

\* C6: the channel mart has one row per distinct channel, in descending order
\* of mean beta power; the subject mart has one row per distinct subject, in
\* ascending order of subject.
C6_MartOrder ==
    GoldDone =>
        /\ Len(gold_workload_stats) =
              Cardinality({all_features[k].channel : k \in 1..Len(all_features)})
        /\ \A k \in 1..Len(all_features) :
              Cardinality({j \in 1..Len(gold_workload_stats) :
                  gold_workload_stats[j].channel = all_features[k].channel}) = 1
        /\ \A j \in 1..Len(gold_workload_stats) :
              LET g   == gold_workload_stats[j]
                  grp == SelectSeq(all_features, LAMBDA r : r.channel = g.channel)
              IN  g.avg_beta.num * Len(grp) = SumBeta(grp, power) * g.avg_beta.den
        /\ \A i, j \in 1..Len(gold_workload_stats) :
              i < j => gold_workload_stats[i].avg_beta.num * gold_workload_stats[j].avg_beta.den
                       >= gold_workload_stats[j].avg_beta.num * gold_workload_stats[i].avg_beta.den
        /\ Len(gold_subject_stats) =
              Cardinality({all_features[k].subject : k \in 1..Len(all_features)})
        /\ \A k \in 1..Len(all_features) :
              Cardinality({j \in 1..Len(gold_subject_stats) :
                  gold_subject_stats[j].subject = all_features[k].subject}) = 1
        /\ \A i, j \in 1..Len(gold_subject_stats) :
              i < j => gold_subject_stats[i].subject < gold_subject_stats[j].subject

\* Marts of two channels whose order by mean beta power is not the channel
\* list's, and of two subjects
C6_Witness ==
    /\ GoldDone
    /\ Len(gold_subject_stats) >= 2
    /\ Len(gold_workload_stats) >= 2
    /\ gold_workload_stats[1].channel = "Fp2"
    /\ gold_workload_stats[2].channel = "Fp1"
    /\ gold_workload_stats[1].avg_beta # gold_workload_stats[2].avg_beta

\* C7: in every window a channel whose slice has fewer than 10 samples gets no
\* FeatureRow and no error, every channel whose slice has at least 10 samples
\* gets exactly one, and no FeatureRow comes from fewer than 10 samples.
C7_MinChannelSamples ==
    /\ \A k \in 1..Len(all_features) : all_features[k].slice_len >= 10
    /\ \A k \in 1..Len(windows) :
          LET w == windows[k]
          IN  \A ch \in Columns :
                 RowCount(LAMBDA r : /\ r.subject = w.subject
                                     /\ r.window_idx = w.window_idx
                                     /\ r.channel = ch)
                    = IF w.slice_len >= 10 THEN 1 ELSE 0
    /\ windows # << >> /\ pc = "failed" => failure = "InvalidInputException"

\* A window of fewer than 10 samples was passed over and the loop went on to
\* the next window
C7_Witness ==
    /\ Len(windows) >= 2
    /\ windows[1].slice_len < 10
    /\ all_features = << >>
    /\ pc = "window"

\* C9 as stated: window_start is the start offset over the sampling rate and
\* window_end the end offset (start + window_samples) over the sampling rate;
\* the rows of one subject and window_idx carry the same pair; window_idx
\* counts the subject's windows 0, 1, 2, ... in generation order.
C9_WindowEndIsEndOffset ==
    \A k \in 1..Len(all_features) :
        LET r == all_features[k]
        IN  /\ r.window_start = Rat(r.window_idx * step_samples, SAMPLING_RATE)
            /\ r.window_end =
                  Rat(r.window_idx * step_samples + window_samples, SAMPLING_RATE)

\* C9 as amended: window_start is the start offset over the sampling rate and
\* window_end is the offset of the window's last sample
\* (start + window_samples - 1) over the sampling rate; the rows of one subject
\* and window_idx carry the same pair; window_idx counts the subject's windows
\* 0, 1, 2, ... in generation order.
C9_WindowEndIsLastSample ==
    /\ \A k \in 1..Len(all_features) :
          LET r == all_features[k]
          IN  /\ r.window_start = Rat(r.window_idx * step_samples, SAMPLING_RATE)
              /\ r.window_end =
                    Rat(r.window_idx * step_samples + window_samples - 1, SAMPLING_RATE)
    /\ \A j, k \in 1..Len(all_features) :
          LET a == all_features[j]
              b == all_features[k]
          IN  a.subject = b.subject /\ a.window_idx = b.window_idx =>
                 a.window_start = b.window_start /\ a.window_end = b.window_end
    /\ SilverStarted =>
          \A i \in 1..Len(csv_files) :
              \A k \in 1..Len(WindowsOf(i)) :
                  /\ WindowsOf(i)[k].window_idx = k - 1
                  /\ WindowsOf(i)[k].start_idx = (k - 1) * step_samples

\* Rows of two channels for a window after the subject's first
C9_Witness ==
    \E j, k \in 1..Len(all_features) :
        /\ all_features[j].subject = all_features[k].subject
        /\ all_features[j].window_idx = all_features[k].window_idx
        /\ all_features[j].channel # all_features[k].channel
        /\ all_features[j].window_idx >= 1

\* C8: compute_dfa never propagates a fault: it returns a value for every
\* segment, and the value is the sentinel 0 when N < 16, when fewer than 2
\* scales have a fluctuation value, and when an exception was raised.
C8_DfaNeverPropagates ==
    /\ dfa.pc \in {"idle", "scales", "returned"}
    /\ dfa.pc = "scales" => ENABLED (DfaScale \/ DfaFit)
    /\ dfa.pc = "returned" =>
          /\ dfa.result \in {"zero", "alpha"}
          /\ dfa.N < 16 \/ Len(dfa.flucts) < 2 \/ dfa.raised => dfa.result = "zero"

\* An exception raised part-way through the scales of a long enough segment
C8_Witness ==
    /\ dfa.pc = "returned"
    /\ dfa.N >= 16
    /\ dfa.raised
    /\ Len(dfa.flucts) >= 2
    /\ dfa.result = "zero"

\* C10: for N >= 16 the scales used in the final fit, scales[:len(flucts)],
\* are the scales that produced the fluctuation values, in their order: no
\* scale in the middle of the list is skipped.
C10_FitScalesPaired ==
    dfa.pc \in {"scales", "returned"} /\ dfa.N >= 16 =>
        /\ \A j \in 1..Len(dfa.flucts) : dfa.flucts[j].scale = dfa.scales[j]
        /\ dfa.result = "alpha" =>
              /\ Len(dfa.fit_scales) = Len(dfa.flucts)
              /\ \A j \in 1..Len(dfa.flucts) : dfa.fit_scales[j] = dfa.flucts[j].scale

\* A fit over all eight scales of a segment whose scales differ
C10_Witness ==
    /\ dfa.pc = "returned"
    /\ dfa.result = "alpha"
    /\ Len(dfa.fit_scales) = DfaScaleCount
    /\ dfa.fit_scales[1] # dfa.fit_scales[DfaScaleCount]
====
